---- MODULE Spec2Model ----
(***************************************************************************)
(* Model of the type_editer backend (backend/src): the SQLite store built  *)
(* by db.rs (documents, nodes, content, with ON DELETE CASCADE foreign     *)
(* keys), the HTTP handlers of handlers.rs that run SQL statements on it,  *)
(* and the upload validator (sanitize_filename, verify_image_magic_number, *)
(* upload_file).                                                           *)
(*                                                                         *)
(* Option<T> is modelled as a sequence: << >> is None / SQL NULL, <<v>> is *)
(* Some(v).  Strings that the code inspects character by character are     *)
(* sequences of one-character strings.                                     *)
(***************************************************************************)
EXTENDS Integers, Sequences, FiniteSets, TLC

VARIABLES
    documents,      \* rows of table documents
    nodes,          \* rows of table nodes
    content,        \* rows of table content
    nextDocId,      \* sqlite_sequence of documents, plus one
    nextNodeId,     \* sqlite_sequence of nodes, plus one
    nextContentId,  \* sqlite_sequence of content, plus one
    clock,          \* CURRENT_TIMESTAMP, in seconds
    resp,           \* the response to the most recent request
    inflight,       \* per task: the request it is handling, between two statements
    req,            \* the multipart upload request being handled
    files           \* names of the files written to ../uploads

vars == <<documents, nodes, content, nextDocId, nextNodeId, nextContentId,
          clock, resp, inflight, req, files>>

storeVars == <<documents, nodes, content, nextDocId, nextNodeId, nextContentId>>

\* ------------------------------------------------------------------ bounds

\* Rows a behaviour of Spec inserts in all (documents, nodes and content ids).
MaxRows == 4
\* Documents a behaviour of SpecDoc inserts.
MaxDocRows == 2
\* Rows (documents and nodes) a behaviour of SpecNode inserts.
MaxNodeRows == 3
\* Rows (documents, nodes and content ids) a behaviour of SpecConc inserts.
MaxSaveRows == 4
\* Requests in flight at once (SpecConc).
MaxClients == 2
\* Seconds the clock advances.
MaxClock == 1
\* Length of the long stems and extensions of uploaded file names.
LongLen == 300
\* Upload sizes tried around MAX_FILE_SIZE, up to this many bytes under and over,
\* and around DEFAULT_BODY_LIMIT, framing counted and not.
MaxOver == 1

\* Rows inserted in a behaviour of SpecRef.
MaxRefRows == 3

\* ------------------------------------------------------------------ options

None == << >>
Some(v) == <<v>>
IsSome(o) == o # << >>
Unwrap(o) == o[1]

\* ------------------------------------------------------------------ store

DocIds == {d.id : d \in documents}
NodeIds == {n.id : n \in nodes}

DocumentRow(id) == CHOOSE d \in documents : d.id = id
NodeRow(id) == CHOOSE n \in nodes : n.id = id
ContentRows(node_id) == {c \in content : c.node_id = node_id}

\* models.rs Node: the row as decoded into the response (no image_url field).
NodeJson(n) ==
    [id |-> n.id, document_id |-> n.document_id, parent_id |-> n.parent_id,
     node_type |-> n.node_type, title |-> n.title, order_index |-> n.order_index,
     indent_level |-> n.indent_level, created_at |-> n.created_at,
     updated_at |-> n.updated_at]

\* fetch_one: the first row of the result, or RowNotFound.
FetchOne(rows) ==
    IF rows = {} THEN None
    ELSE Some(CHOOSE r \in rows : \A q \in rows : r.id <= q.id)

Response(op, id, status, body) ==
    [op |-> op, id |-> id, status |-> status, body |-> body]

\* Deleting documents deletes no node.
NoDocumentCascade(ns, docIds) == {}

\* FOREIGN KEY (document_id) REFERENCES documents(id) ON DELETE CASCADE
NodesOfDocuments(ns, docIds) == {n.id : n \in {m \in ns : m.document_id \in docIds}}

\* FOREIGN KEY (parent_id) REFERENCES nodes(id) ON DELETE CASCADE: the rows whose
\* parent is one of the deleted rows.
ChildNodes(ns, deleted) ==
    {n.id : n \in {m \in ns : IsSome(m.parent_id) /\ Unwrap(m.parent_id) \in deleted}}

\* The cascade stops at the children of the deleted rows.
CascadeChildrenOnly(ns, deleted) == deleted \cup ChildNodes(ns, deleted)

\* The cascade runs until no row references a deleted row.
RECURSIVE CascadeNodes(_, _)
CascadeNodes(ns, deleted) ==
    LET more == ChildNodes(ns, deleted) \ deleted
    IN  IF more = {} THEN deleted ELSE CascadeNodes(ns, deleted \cup more)

\* Content rows outlive their node.
ContentKept(cs, deleted) == cs

\* FOREIGN KEY (node_id) REFERENCES nodes(id) ON DELETE CASCADE
ContentAfterDelete(cs, deleted) == {c \in cs : c.node_id \notin deleted}

NodesAfterDelete(ns, deleted) == {n \in ns : n.id \notin deleted}

\* The foreign keys of a nodes row, checked when the statement ends (the row may
\* reference itself).
NodeForeignKeysHold(docs, ns, row) ==
    /\ row.document_id \in {d.id : d \in docs}
    /\ IsSome(row.parent_id) =>
          Unwrap(row.parent_id) \in ({n.id : n \in ns} \cup {row.id})

\* The foreign key of a content row.
ContentForeignKeyHolds(ns, node_id) == node_id \in {n.id : n \in ns}

\* The UPDATE without its WHERE clause.
SetNodeFieldAllRows(ns, id, f, v, now) ==
    {[n EXCEPT ![f] = v, !.updated_at = now] : n \in ns}

\* UPDATE nodes SET <field> = ?, updated_at = CURRENT_TIMESTAMP WHERE id = ?
SetNodeField(ns, id, f, v, now) ==
    {IF n.id = id THEN [n EXCEPT ![f] = v, !.updated_at = now] ELSE n : n \in ns}

\* ------------------------------------------------------------------ requests

\* The body of POST /api/nodes as create_node reads it: the six fields of the
\* struct and image_url, which the handler binds and the struct does not declare.
CreateNodeRequest(document_id, parent_id, image_url) ==
    [document_id |-> document_id, parent_id |-> parent_id, node_type |-> "section",
     title |-> "a", order_index |-> 0, indent_level |-> 0, image_url |-> image_url]

UpdateNodeRequest(title, order_index, indent_level, parent_id) ==
    [title |-> title, order_index |-> order_index, indent_level |-> indent_level,
     parent_id |-> parent_id]

NoPayload == UpdateNodeRequest(None, None, None, None)

\* The tasks that handle requests: each runs one handler, statement by statement,
\* and the statements of different tasks interleave.
Clients == 1 .. MaxClients

\* A task between two statements of its handler: the handler (op), the statement it
\* executes next (pc) and the handler's locals.  changed and undisturbed are
\* history, not locals: the statements this task has executed changed a row; no
\* other task has executed a writing statement since this task's first statement.
InFlight(op, pc, id, title, content_json, payload, changed) ==
    [pending |-> TRUE, op |-> op, pc |-> pc, id |-> id, title |-> title,
     content_json |-> content_json, payload |-> payload, changed |-> changed,
     undisturbed |-> TRUE]

Idle ==
    [pending |-> FALSE, op |-> "none", pc |-> "none", id |-> 0, title |-> "",
     content_json |-> "", payload |-> NoPayload, changed |-> FALSE,
     undisturbed |-> TRUE]

\* save_content between its upsert and its read.
Pending(node_id, content_json) ==
    InFlight("save_content", "select", node_id, "", content_json, NoPayload, TRUE)

\* Task c takes the next request: tasks are interchangeable, so a request goes to
\* the idle task of lowest number.
Free(c) ==
    /\ ~inflight[c].pending
    /\ \A o \in 1 .. c - 1 : inflight[o].pending

\* Task c is between two statements of handler op.
Running(c, op) == inflight[c].pending /\ inflight[c].op = op

\* The tasks after task c (0: a single-statement handler) executed a writing
\* statement and went on as rec.
Disturb(c, rec) ==
    [o \in Clients |->
        IF o = c THEN rec
        ELSE IF inflight[o].pending THEN [inflight[o] EXCEPT !.undisturbed = FALSE]
        ELSE inflight[o]]

\* The tasks after task c answered its request.
Answered(c) == [inflight EXCEPT ![c] = Idle]

\* ------------------------------------------------------------------ handlers

\* create_document, first statement: INSERT INTO documents (title) VALUES (?).
create_document_insert(c, title) ==
    LET row == [id |-> nextDocId, title |-> title,
                created_at |-> clock, updated_at |-> clock]
    IN  /\ Free(c)
        /\ documents' = documents \cup {row}
        /\ nextDocId' = nextDocId + 1
        /\ inflight' = Disturb(c, InFlight("create_document", "select", nextDocId,
                                           title, "", NoPayload, TRUE))
        /\ UNCHANGED <<nodes, content, nextNodeId, nextContentId, clock, resp,
                       req, files>>

\* create_document, second statement: SELECT * FROM documents WHERE id = ? with
\* last_insert_rowid().
create_document_select(c) ==
    /\ Running(c, "create_document")
    /\ LET got == FetchOne({d \in documents : d.id = inflight[c].id})
       IN  resp' = Response("create_document", inflight[c].id,
                            IF IsSome(got) THEN 200 ELSE 500, got)
    /\ inflight' = Answered(c)
    /\ UNCHANGED <<storeVars, clock, req, files>>

get_document(id) ==
    LET got == FetchOne({d \in documents : d.id = id})
    IN  /\ resp' = Response("get_document", id, IF IsSome(got) THEN 200 ELSE 404, got)
        /\ UNCHANGED <<storeVars, clock, inflight, req, files>>

\* The UPDATE without its WHERE clause.
UpdateAllDocumentRows(docs, id, title, now) ==
    {[d EXCEPT !.title = title, !.updated_at = now] : d \in docs}

\* UPDATE documents SET title = ?, updated_at = CURRENT_TIMESTAMP WHERE id = ?
UpdateDocumentRows(docs, id, title, now) ==
    {IF d.id = id THEN [d EXCEPT !.title = title, !.updated_at = now] ELSE d
       : d \in docs}

\* update_document, first statement: the UPDATE.
update_document_update(c, id, title) ==
    /\ Free(c)
    /\ documents' = UpdateDocumentRows(documents, id, title, clock)
    /\ inflight' = Disturb(c, InFlight("update_document", "select", id, title, "",
                                       NoPayload, id \in DocIds))
    /\ UNCHANGED <<nodes, content, nextDocId, nextNodeId, nextContentId, clock,
                   resp, req, files>>

\* update_document, second statement: SELECT * FROM documents WHERE id = ?.
update_document_select(c) ==
    /\ Running(c, "update_document")
    /\ LET got == FetchOne({d \in documents : d.id = inflight[c].id})
       IN  resp' = Response("update_document", inflight[c].id,
                            IF IsSome(got) THEN 200 ELSE 404, got)
    /\ inflight' = Answered(c)
    /\ UNCHANGED <<storeVars, clock, req, files>>

delete_document(id) ==
    LET deleted == CascadeNodes(nodes, NodesOfDocuments(nodes, {id}))
    IN  /\ documents' = {d \in documents : d.id # id}
        /\ nodes' = NodesAfterDelete(nodes, deleted)
        /\ content' = ContentAfterDelete(content, deleted)
        /\ resp' = Response("delete_document", id, 204, None)
        /\ inflight' = Disturb(0, Idle)
        /\ UNCHANGED <<nextDocId, nextNodeId, nextContentId, clock, req, files>>

\* create_node, first statement: INSERT INTO nodes (...) VALUES (...); a foreign
\* key that fails answers 500.
create_node_insert(c, payload) ==
    LET row == [id |-> nextNodeId, document_id |-> payload.document_id,
                parent_id |-> payload.parent_id, node_type |-> payload.node_type,
                title |-> payload.title, order_index |-> payload.order_index,
                indent_level |-> payload.indent_level,
                image_url |-> payload.image_url,
                created_at |-> clock, updated_at |-> clock]
    IN  /\ Free(c)
        /\ IF NodeForeignKeysHold(documents, nodes, row)
           THEN /\ nodes' = nodes \cup {row}
                /\ nextNodeId' = nextNodeId + 1
                /\ inflight' = Disturb(c, InFlight("create_node", "select", nextNodeId,
                                                   "", "", NoPayload, TRUE))
                /\ UNCHANGED <<documents, content, nextDocId, nextContentId, clock,
                               resp, req, files>>
           ELSE /\ resp' = Response("create_node", 0, 500, None)
                /\ UNCHANGED <<storeVars, clock, inflight, req, files>>

\* create_node, second statement: SELECT * FROM nodes WHERE id = ? with
\* last_insert_rowid().
create_node_select(c) ==
    /\ Running(c, "create_node")
    /\ LET got == FetchOne({n \in nodes : n.id = inflight[c].id})
       IN  resp' = Response("create_node", inflight[c].id,
                            IF IsSome(got) THEN 200 ELSE 500,
                            IF IsSome(got) THEN Some(NodeJson(Unwrap(got))) ELSE None)
    /\ inflight' = Answered(c)
    /\ UNCHANGED <<storeVars, clock, req, files>>

get_node(id) ==
    LET got == FetchOne({n \in nodes : n.id = id})
    IN  /\ resp' = Response("get_node", id, IF IsSome(got) THEN 200 ELSE 404,
                            IF IsSome(got) THEN Some(NodeJson(Unwrap(got))) ELSE None)
        /\ UNCHANGED <<storeVars, clock, inflight, req, files>>

\* The statements of update_node in the order of the code: one UPDATE for each
\* field the payload supplies, then the SELECT.
UpdateNodeStmts == <<"title", "order_index", "indent_level", "parent_id", "select">>

\* The statement at position k runs: "if let Some(v) = payload.<field>".
Supplied(payload, k) == k = Len(UpdateNodeStmts) \/ IsSome(payload[UpdateNodeStmts[k]])

\* The first statement that runs from position k on.
StmtFrom(payload, k) ==
    UpdateNodeStmts[CHOOSE j \in k .. Len(UpdateNodeStmts) :
                       /\ Supplied(payload, j)
                       /\ \A i \in k .. j - 1 : ~Supplied(payload, i)]

\* The statement that runs after statement pc.
StmtAfter(payload, pc) ==
    StmtFrom(payload, 1 + CHOOSE j \in 1 .. Len(UpdateNodeStmts) : UpdateNodeStmts[j] = pc)

\* The parent_id block: the UPDATE fails (500) when the row exists and the new
\* parent does not.
ParentWriteFails(ns, id, opt) ==
    /\ IsSome(opt)
    /\ id \in {n.id : n \in ns}
    /\ Unwrap(opt) \notin {n.id : n \in ns}

\* Task c, running update_node as rec, executes the statement rec.pc.
UpdateNodeStmt(c, rec) ==
    /\ UNCHANGED <<documents, content, nextDocId, nextNodeId, nextContentId, clock,
                   req, files>>
    /\ IF rec.pc = "select"
       THEN LET got == FetchOne({n \in nodes : n.id = rec.id})
            IN  /\ resp' = Response("update_node", rec.id,
                                    IF IsSome(got) THEN 200 ELSE 404,
                                    IF IsSome(got) THEN Some(NodeJson(Unwrap(got)))
                                    ELSE None)
                /\ nodes' = nodes
                /\ inflight' = Answered(c)
       ELSE IF rec.pc = "parent_id" /\ ParentWriteFails(nodes, rec.id, rec.payload.parent_id)
       THEN /\ resp' = Response("update_node", rec.id, 500, None)
            /\ nodes' = nodes
            /\ inflight' = Answered(c)
       ELSE /\ nodes' = SetNodeField(nodes, rec.id, rec.pc,
                                     IF rec.pc = "parent_id" THEN rec.payload.parent_id
                                     ELSE Unwrap(rec.payload[rec.pc]),
                                     clock)
            /\ resp' = resp
            /\ inflight' = Disturb(c, [rec EXCEPT
                                          !.pc = StmtAfter(rec.payload, rec.pc),
                                          !.changed = @ \/ rec.id \in NodeIds])

\* update_node, the first statement that runs.
update_node_begin(c, id, payload) ==
    /\ Free(c)
    /\ UpdateNodeStmt(c, InFlight("update_node", StmtFrom(payload, 1), id, "", "",
                                  payload, FALSE))

\* update_node, each later statement.
update_node_next(c) ==
    /\ Running(c, "update_node")
    /\ UpdateNodeStmt(c, inflight[c])

delete_node(id) ==
    LET deleted == CascadeNodes(nodes, {id} \cap NodeIds)
    IN  /\ nodes' = NodesAfterDelete(nodes, deleted)
        /\ content' = ContentAfterDelete(content, deleted)
        /\ resp' = Response("delete_node", id, 204, None)
        /\ inflight' = Disturb(0, Idle)
        /\ UNCHANGED <<documents, nextDocId, nextNodeId, nextContentId, clock,
                       req, files>>

get_content(node_id) ==
    LET got == FetchOne(ContentRows(node_id))
    IN  /\ resp' = Response("get_content", node_id,
                            IF IsSome(got) THEN 200 ELSE 404, got)
        /\ UNCHANGED <<storeVars, clock, inflight, req, files>>

\* The INSERT without its ON CONFLICT clause and without the UNIQUE constraint.
InsertAlways(cs, newId, node_id, content_json, now) ==
    cs \cup {[id |-> newId, node_id |-> node_id,
              content_json |-> content_json, updated_at |-> now]}

\* INSERT INTO content (node_id, content_json) VALUES (?, ?)
\* ON CONFLICT(node_id) DO UPDATE SET content_json = ?, updated_at = CURRENT_TIMESTAMP
Upsert(cs, newId, node_id, content_json, now) ==
    IF \E c \in cs : c.node_id = node_id
    THEN {IF c.node_id = node_id
          THEN [c EXCEPT !.content_json = content_json, !.updated_at = now]
          ELSE c : c \in cs}
    ELSE cs \cup {[id |-> newId, node_id |-> node_id,
                   content_json |-> content_json, updated_at |-> now]}

\* save_content, first statement: the upsert; a foreign key that fails answers 500.
save_content_upsert(c, node_id, content_json) ==
    /\ Free(c)
    /\ IF ContentForeignKeyHolds(nodes, node_id)
       THEN /\ content' = Upsert(content, nextContentId, node_id, content_json, clock)
            /\ nextContentId' = nextContentId + 1
            /\ inflight' = Disturb(c, Pending(node_id, content_json))
            /\ UNCHANGED resp
       ELSE /\ resp' = Response("save_content", node_id, 500, None)
            /\ UNCHANGED <<content, nextContentId, inflight>>
    /\ UNCHANGED <<documents, nodes, nextDocId, nextNodeId, clock, req, files>>

\* save_content, second statement: SELECT * FROM content WHERE node_id = ?.
save_content_read(c) ==
    /\ Running(c, "save_content")
    /\ LET got == FetchOne(ContentRows(inflight[c].id))
       IN  resp' = Response("save_content", inflight[c].id,
                            IF IsSome(got) THEN 200 ELSE 500, got)
    /\ inflight' = Answered(c)
    /\ UNCHANGED <<storeVars, clock, req, files>>

\* A second passes: CURRENT_TIMESTAMP moves on.
Tick ==
    /\ clock' = clock + 1
    /\ UNCHANGED <<storeVars, resp, inflight, req, files>>

NoResponse == Response("none", 0, 0, None)

\* ------------------------------------------------------------------ upload

MAX_FILE_SIZE == 10 * 1024 * 1024

\* The most bytes of a request body the Multipart extractor reads: the router
\* installs no DefaultBodyLimit, so the framework's limit of 2 MiB is in force.
DEFAULT_BODY_LIMIT == 2 * 1024 * 1024
MAX_LENGTH == 255

ALLOWED_EXTENSIONS ==
    {<<".", "j", "p", "g">>, <<".", "j", "p", "e", "g">>, <<".", "p", "n", "g">>,
     <<".", "g", "i", "f">>, <<".", "w", "e", "b", "p">>}

\* char::is_alphanumeric, on the characters the inputs are made of ("é" is a letter
\* of two UTF-8 bytes).
AlphanumericChars ==
    {"a", "b", "c", "d", "e", "f", "g", "h", "i", "j", "k", "l", "m", "n", "o", "p",
     "q", "r", "s", "t", "u", "v", "w", "x", "y", "z", "G", "N", "P", "é",
     "0", "1", "2", "3", "4", "5", "6", "7", "8", "9"}

Utf8Len(c) == IF c = "é" THEN 2 ELSE 1

\* str::to_lowercase, on the same characters.
ToLowercaseChar(c) ==
    CASE c = "G" -> "g" [] c = "N" -> "n" [] c = "P" -> "p" [] OTHER -> c

ToLowercase(s) == [i \in 1 .. Len(s) |-> ToLowercaseChar(s[i])]

\* str::len: the length in bytes (a character of the inputs takes one byte or two).
ByteLen(s) ==
    Len(s) + Cardinality({i \in 1 .. Len(s) : Utf8Len(s[i]) = 2})

\* The characters of s that lie wholly within its first k bytes.
CharsWithin(s, k) ==
    CHOOSE j \in 0 .. Len(s) :
        /\ ByteLen(SubSeq(s, 1, j)) <= k
        /\ j < Len(s) => ByteLen(SubSeq(s, 1, j + 1)) > k

\* str::is_char_boundary(k), for k <= len.
IsCharBoundary(s, k) == ByteLen(SubSeq(s, 1, CharsWithin(s, k))) = k

\* The last index of character c in s, 0 when there is none.
LastIndexOf(s, c) ==
    IF \A i \in 1 .. Len(s) : s[i] # c THEN 0
    ELSE CHOOSE i \in 1 .. Len(s) : s[i] = c /\ \A j \in i + 1 .. Len(s) : s[j] # c

\* The path split at every "/".
RECURSIVE SplitPath(_)
SplitPath(s) ==
    IF \A i \in 1 .. Len(s) : s[i] # "/" THEN <<s>>
    ELSE LET i == CHOOSE j \in 1 .. Len(s) :
                     s[j] = "/" /\ \A k \in 1 .. j - 1 : s[k] # "/"
         IN  <<SubSeq(s, 1, i - 1)>> \o SplitPath(SubSeq(s, i + 1, Len(s)))

\* The path as given, directories included.
PathAsGiven(path) == Some(path)

\* Path::file_name (Unix): the last component when it is a normal one; empty and "."
\* components are skipped, and a path that ends in ".." has none.
FileName(path) ==
    LET comps == SelectSeq(SplitPath(path), LAMBDA c : c # << >> /\ c # <<".">>)
    IN  IF comps = << >> \/ comps[Len(comps)] = <<".", ".">> THEN None
        ELSE Some(comps[Len(comps)])

\* Path::extension: the text after the last "." of the file name, when the file
\* name has a "." that is not its first character.
Extension(path) ==
    LET name == FileName(path)
    IN  IF ~IsSome(name) THEN None
        ELSE LET dot == LastIndexOf(Unwrap(name), ".")
             IN  IF dot <= 1 THEN None
                 ELSE Some(SubSeq(Unwrap(name), dot + 1, Len(Unwrap(name))))

\* The closure of the .map() in sanitize_filename.
SanitizeChar(c) ==
    IF c \in AlphanumericChars \/ c = "." \/ c = "-" \/ c = "_" THEN c ELSE "_"

\* sanitize_filename up to "Limit filename length": the basename, its characters
\* replaced.
Sanitized(filename) ==
    LET name     == FileName(filename)
        basename == IF IsSome(name) THEN Unwrap(name)
                    ELSE <<"u", "n", "k", "n", "o", "w", "n">>
    IN  [i \in 1 .. Len(basename) |-> SanitizeChar(basename[i])]

Returned(value) == [panic |-> FALSE, value |-> value]
Panicked == [panic |-> TRUE, value |-> << >>]

\* The "Limit filename length" block.  MAX_LENGTH - ext.len() is a usize
\* subtraction: when ext is longer than MAX_LENGTH it panics in a build with
\* overflow checks and wraps to a number near 2^64 in one without, which leaves
\* dot_pos as the minimum.  Slicing a str off a character boundary panics.
Truncate(sanitized, overflow_checks) ==
    IF ByteLen(sanitized) > MAX_LENGTH
    THEN LET dot == LastIndexOf(sanitized, ".")
         IN  IF dot > 0
             THEN LET dot_pos == ByteLen(SubSeq(sanitized, 1, dot - 1))
                      ext     == SubSeq(sanitized, dot, Len(sanitized))
                      wraps   == ByteLen(ext) > MAX_LENGTH
                      cut     == IF wraps \/ dot_pos <= MAX_LENGTH - ByteLen(ext)
                                 THEN dot_pos ELSE MAX_LENGTH - ByteLen(ext)
                  IN  IF wraps /\ overflow_checks THEN Panicked
                      ELSE IF ~IsCharBoundary(sanitized, cut) THEN Panicked
                      ELSE Returned(SubSeq(sanitized, 1, CharsWithin(sanitized, cut))
                                    \o ext)
             ELSE Returned(SubSeq(sanitized, 1,
                                  IF Len(sanitized) < MAX_LENGTH THEN Len(sanitized)
                                  ELSE MAX_LENGTH))
    ELSE Returned(sanitized)

sanitize_filename(filename, overflow_checks) ==
    Truncate(Sanitized(filename), overflow_checks)

\* The body of a field: its length and its leading bytes (all of them when there
\* are at most twelve).
DataLen(data) == data.len
Byte(data, i) == data.head[i + 1]

verify_image_magic_number(data, extension) ==
    IF DataLen(data) < 4 THEN FALSE
    ELSE CASE extension \in {<<".", "j", "p", "g">>, <<".", "j", "p", "e", "g">>} ->
                 /\ DataLen(data) >= 3
                 /\ Byte(data, 0) = 255 /\ Byte(data, 1) = 216 /\ Byte(data, 2) = 255
           [] extension = <<".", "p", "n", "g">> ->
                 /\ DataLen(data) >= 8
                 /\ Byte(data, 0) = 137 /\ Byte(data, 1) = 80 /\ Byte(data, 2) = 78
                 /\ Byte(data, 3) = 71 /\ Byte(data, 4) = 13 /\ Byte(data, 5) = 10
                 /\ Byte(data, 6) = 26 /\ Byte(data, 7) = 10
           [] extension = <<".", "g", "i", "f">> ->
                 /\ DataLen(data) >= 4
                 /\ Byte(data, 0) = 71 /\ Byte(data, 1) = 73 /\ Byte(data, 2) = 70
                 /\ Byte(data, 3) = 56
           [] extension = <<".", "w", "e", "b", "p">> ->
                 /\ DataLen(data) >= 12
                 /\ Byte(data, 0) = 82 /\ Byte(data, 1) = 73 /\ Byte(data, 2) = 70
                 /\ Byte(data, 3) = 70
                 /\ <<Byte(data, 8), Byte(data, 9), Byte(data, 10), Byte(data, 11)>>
                       = <<87, 69, 66, 80>>
           [] OTHER -> FALSE

\* field.bytes() returns the data: the client sent the body whole, and the body,
\* which is the data and the multipart framing around it, is not longer than the
\* limit.
ReadOk(r) == r.body_sent /\ DataLen(r.data) + r.framing <= DEFAULT_BODY_LIMIT

\* data.len() > MAX_FILE_SIZE
TooLarge(data) == DataLen(data) > MAX_FILE_SIZE

DigitChar(d) == <<"0", "1", "2", "3", "4", "5", "6", "7", "8", "9">>[d + 1]

\* format!("{}", timestamp)
RECURSIVE Decimal(_)
Decimal(n) ==
    IF n < 10 THEN <<DigitChar(n)>> ELSE Decimal(n \div 10) \o <<DigitChar(n % 10)>>

\* format!("{}_{}", timestamp, sanitized_name)
\* The longest file name, in bytes, that the file system of ../uploads takes:
\* File::create fails on a longer one.
NAME_MAX == 255

StoredName(timestamp, sanitized_name) ==
    Decimal(timestamp) \o <<"_">> \o sanitized_name

UploadResponse(status, body) == Response("upload_file", 0, status, body)

\* upload_file on the request req: its first field, if any, with its file name, if
\* any, the outcome of reading its body, the clock, and the outcome of the writes to
\* ../uploads.  A panic ends the task without a response (status 0).
upload_file ==
    /\ req.present /\ resp = NoResponse
    /\ UNCHANGED <<storeVars, clock, inflight, req>>
    /\ IF ~req.has_field \/ ~IsSome(req.file_name) \/ ~ReadOk(req)
       THEN resp' = UploadResponse(400, None) /\ files' = files
       ELSE IF TooLarge(req.data)
       THEN resp' = UploadResponse(413, None) /\ files' = files
       ELSE LET sanitized == sanitize_filename(Unwrap(req.file_name),
                                               req.overflow_checks)
                ext       == Extension(sanitized.value)
                extension == <<".">> \o ToLowercase(Unwrap(ext))
                filename  == StoredName(req.timestamp, sanitized.value)
            IN  IF sanitized.panic
                THEN resp' = UploadResponse(0, None) /\ files' = files
                ELSE IF ~IsSome(ext) \/ extension \notin ALLOWED_EXTENSIONS
                THEN resp' = UploadResponse(400, None) /\ files' = files
                ELSE IF ~verify_image_magic_number(req.data, extension)
                THEN resp' = UploadResponse(400, None) /\ files' = files
                ELSE IF req.fs = "create_fails" \/ ByteLen(filename) > NAME_MAX
                THEN resp' = UploadResponse(500, None) /\ files' = files
                ELSE IF req.fs = "write_fails"
                THEN resp' = UploadResponse(500, None)
                     /\ files' = files \cup {filename}
                ELSE /\ resp' = UploadResponse(200,
                                   Some([url |-> <<"/", "u", "p", "l", "o", "a", "d",
                                                   "s", "/">> \o filename,
                                         filename |-> filename]))
                     /\ files' = files \cup {filename}

\* ------------------------------------------------------------------ inputs

Titles == {"a", "b"}
Payloads == {"p", "q"}

\* Ids a client may name: every id handed out so far and one never handed out.
DocIdInputs == 1 .. nextDocId
NodeIdInputs == 1 .. nextNodeId

NoRequest == [present |-> FALSE]

RowsInserted == (nextDocId - 1) + (nextNodeId - 1) + (nextContentId - 1)

Init ==
    /\ documents = {}
    /\ nodes = {}
    /\ content = {}
    /\ nextDocId = 1
    /\ nextNodeId = 1
    /\ nextContentId = 1
    /\ clock = 0
    /\ resp = NoResponse
    /\ inflight = [c \in Clients |-> Idle]
    /\ req = NoRequest
    /\ files = {}

\* The tasks of Spec, SpecDoc, SpecNode and SpecRef: two requests at a time, so
\* that every statement of one can fall between two statements of the other.
Pair == {1, 2}

\* The outline of a document: documents, nodes with their parent links, content.
Next ==
    \/ \E c \in Pair : RowsInserted < MaxRows /\ create_document_insert(c, "a")
    \/ \E c \in Pair : create_document_select(c)
    \/ \E id \in DocIdInputs : delete_document(id)
    \/ \E c \in Pair, d \in DocIdInputs,
          p \in {None} \cup {Some(i) : i \in NodeIdInputs} :
          RowsInserted < MaxRows /\ create_node_insert(c, CreateNodeRequest(d, p, None))
    \/ \E c \in Pair : create_node_select(c)
    \/ \E c \in Pair, id \in NodeIdInputs,
          p \in {None} \cup {Some(i) : i \in NodeIdInputs} :
          update_node_begin(c, id, UpdateNodeRequest(None, None, None, p))
    \/ \E c \in Pair : update_node_next(c)
    \/ \E id \in NodeIdInputs : delete_node(id)
    \/ \E c \in Pair, id \in NodeIdInputs :
          RowsInserted < MaxRows /\ save_content_upsert(c, id, "p")
    \/ \E c \in Pair : save_content_read(c)
    \/ \E id \in NodeIdInputs : get_content(id)

Spec == Init /\ [][Next]_vars

\* Documents: titles and timestamps.  Documents are created with one title and
\* retitled by update_document, which names document 1 or an id no document has;
\* the other documents show what a request for document 1 leaves alone.
NextDoc ==
    \/ \E c \in Pair :
          RowsInserted < MaxDocRows /\ create_document_insert(c, "a")
    \/ \E c \in Pair : create_document_select(c)
    \/ \E c \in Pair, id \in {1, nextDocId}, t \in Titles :
          update_document_update(c, id, t)
    \/ \E c \in Pair : update_document_select(c)
    \/ \E id \in {1, nextDocId} : get_document(id)
    \/ \E id \in DocIdInputs : delete_document(id)
    \/ clock < MaxClock /\ Tick

SpecDoc == Init /\ [][NextDoc]_vars

\* What a client may put in the body of PUT /api/nodes/{id}: each field supplied or
\* not; the parent_id supplied is node 1 or an id that no node has.
UpdateNodeInputs ==
    {UpdateNodeRequest(t, o, i, p) :
        t \in {None, Some("b")}, o \in {None, Some(1)}, i \in {None, Some(1)},
        p \in {None, Some(1), Some(nextNodeId)}}

\* The payload of the other task of SpecNode.
Retitle == UpdateNodeRequest(Some("c"), None, None, None)

\* Nodes of one document, each created with an image: task 1 updates node 1, or a
\* node that does not exist, with any payload of UpdateNodeInputs; task 2 retitles
\* node 1, and delete_node removes it, between the statements of another request.
NextNode ==
    \/ \E c \in Pair :
          RowsInserted < MaxNodeRows /\ documents = {} /\ create_document_insert(c, "a")
    \/ \E c \in Pair : create_document_select(c)
    \/ \E c \in Pair, d \in DocIdInputs :
          RowsInserted < MaxNodeRows
             /\ create_node_insert(c, CreateNodeRequest(d, None, Some("u")))
    \/ \E c \in Pair : create_node_select(c)
    \/ \E id \in {1, nextNodeId}, payload \in UpdateNodeInputs :
          update_node_begin(1, id, payload)
    \/ \E c \in Pair \ {1} :
          update_node_begin(c, 1, Retitle)
    \/ \E c \in Pair : update_node_next(c)
    \/ delete_node(1)

SpecNode == Init /\ [][NextNode]_vars

\* What a client may put in the body of PUT /api/nodes/{id} next to a parent_id:
\* a title or none; the parent_id is any node id issued so far or the next one,
\* which no node has.
RefUpdateInputs ==
    {UpdateNodeRequest(t, None, None, p) :
        t \in {None, Some("b")}, p \in {None} \cup {Some(i) : i \in NodeIdInputs}}

\* References: every operation that inserts, updates or deletes a row that holds
\* or is the target of a foreign key.
NextRef ==
    \/ \E c \in Pair : RowsInserted < MaxRefRows /\ create_document_insert(c, "a")
    \/ \E c \in Pair : create_document_select(c)
    \/ \E id \in DocIdInputs : delete_document(id)
    \/ \E c \in Pair, d \in DocIdInputs,
          p \in {None} \cup {Some(i) : i \in NodeIdInputs} :
          RowsInserted < MaxRefRows /\ create_node_insert(c, CreateNodeRequest(d, p, None))
    \/ \E c \in Pair : create_node_select(c)
    \/ \E c \in Pair, id \in NodeIdInputs, payload \in RefUpdateInputs :
          update_node_begin(c, id, payload)
    \/ \E c \in Pair : update_node_next(c)
    \/ \E id \in NodeIdInputs : delete_node(id)
    \/ \E c \in Pair, id \in NodeIdInputs :
          RowsInserted < MaxRefRows /\ save_content_upsert(c, id, "p")
    \/ \E c \in Pair : save_content_read(c)

SpecRef == Init /\ [][NextRef]_vars

\* Content: save_content requests of several clients interleaved with each other
\* and with delete_node.
NextConc ==
    \/ \E c \in Clients :
          RowsInserted < MaxSaveRows /\ documents = {} /\ create_document_insert(c, "a")
    \/ \E c \in Clients : create_document_select(c)
    \/ \E c \in Clients, d \in DocIdInputs :
          RowsInserted < MaxSaveRows /\ create_node_insert(c, CreateNodeRequest(d, None, None))
    \/ \E c \in Clients : create_node_select(c)
    \/ \E c \in Clients, id \in NodeIdInputs, p \in Payloads :
          RowsInserted < MaxSaveRows /\ save_content_upsert(c, id, p)
    \/ \E c \in Clients : save_content_read(c)
    \/ \E id \in NodeIdInputs : delete_node(id)
    \/ \E id \in NodeIdInputs : get_content(id)
    \/ \E id \in NodeIdInputs : get_node(id)

SpecConc == Init /\ [][NextConc]_vars

\* ---------------------------------------------------------- upload inputs

Rep(c, n) == [i \in 1 .. n |-> c]

PhotoJpg == <<"p", "h", "o", "t", "o", ".", "j", "p", "g">>
PhotoPng == <<"p", "h", "o", "t", "o", ".", "p", "n", "g">>
PasswdPng == <<".", ".", "/", ".", ".", "/", "e", "t", "c", "/",
               "p", "a", "s", "s", "w", "d", ".", "p", "n", "g">>
DotPng == <<".", "p", "n", "g">>

FileNameInputs ==
    {PhotoJpg, PhotoPng, PasswdPng,
     <<"a", ".", ".", "p", "n", "g">>,
     <<".", ".", "\\", ".", ".", "\\", "a", ".", "p", "n", "g">>,
     <<".", ".">>, << >>, <<"/">>, <<"d", "i", "r", "/", ".">>, DotPng,
     <<"x", "/", ".", ".">>, <<"a", ".">>,
     <<"x", ".", "P", "N", "G">>, <<"a", " ", "b", ".", "g", "i", "f">>,
     <<"p", ".", "w", "e", "b", "p">>, <<"p", ".", "j", "p", "e", "g">>,
     <<"p", ".", "e", "x", "e">>, <<"n", "o", "e", "x", "t">>,
     <<"é", ".", "p", "n", "g">>}

\* Names around and beyond MAX_LENGTH: a long stem, no extension, a long extension,
\* two-byte characters.
LongFileNameInputs ==
    {Rep("a", MAX_LENGTH - 4) \o DotPng,
     Rep("a", MAX_LENGTH - 3) \o DotPng,
     Rep("a", LongLen) \o DotPng,
     <<"d", "/">> \o Rep("a", LongLen) \o DotPng,
     Rep("a", MAX_LENGTH), Rep("a", MAX_LENGTH + 1), Rep("a", LongLen),
     <<"a", ".">> \o Rep("b", MAX_LENGTH - 1),
     <<"a", ".">> \o Rep("b", LongLen),
     <<"a", ".", "p", "n", "g", ".">> \o Rep("b", LongLen),
     Rep("é", (MAX_LENGTH + 5) \div 2) \o DotPng,
     Rep("é", LongLen)}

JpegBytes == <<255, 216, 255, 224>>
PngBytes == <<137, 80, 78, 71, 13, 10, 26, 10, 0>>
GifBytes == <<71, 73, 70, 56, 57, 97>>
WebpBytes == <<82, 73, 70, 70, 36, 0, 0, 0, 87, 69, 66, 80, 86>>

Prefixes(bytes) == {SubSeq(bytes, 1, k) : k \in 0 .. Len(bytes)}
Corruptions(bytes) == {[bytes EXCEPT ![i] = 0] : i \in 1 .. Len(bytes)}

HeadInputs ==
    UNION {Prefixes(b) \cup Corruptions(b) : b \in {JpegBytes, PngBytes, GifBytes, WebpBytes}}

\* A body of len bytes that starts with bytes and goes on with zeros.
Body(len, bytes) ==
    [len |-> len,
     head |-> [i \in 1 .. (IF len < 12 THEN len ELSE 12) |->
                 IF i <= Len(bytes) THEN bytes[i] ELSE 0]]

DataInputs ==
    {Body(Len(h), h) : h \in HeadInputs}
    \cup {Body(n, h) : n \in (DEFAULT_BODY_LIMIT - 1 .. DEFAULT_BODY_LIMIT + MaxOver)
                                 \cup (MAX_FILE_SIZE - MaxOver .. MAX_FILE_SIZE + MaxOver),
                       h \in {PngBytes, << >>}}

\* The bytes of multipart framing a client puts around the data of one field: the
\* two boundary lines and the Content-Disposition header, which holds the file name.
Framing(file_name) ==
    71 + (IF IsSome(file_name) THEN ByteLen(Unwrap(file_name)) ELSE 0)

UploadRequest(has_field, file_name, body_sent, data, overflow_checks, timestamp, fs) ==
    [present |-> TRUE, has_field |-> has_field, file_name |-> file_name,
     body_sent |-> body_sent, data |-> data, framing |-> Framing(file_name),
     overflow_checks |-> overflow_checks,
     timestamp |-> timestamp, fs |-> fs]

UploadRequests ==
    {UploadRequest(TRUE, Some(name), TRUE, data, oc, ts, fs) :
        name \in FileNameInputs, data \in DataInputs, oc \in BOOLEAN,
        ts \in {0, 1700000000}, fs \in {"ok", "create_fails", "write_fails"}}
    \cup {UploadRequest(TRUE, Some(name), TRUE, Body(Len(PngBytes), PngBytes),
                        oc, 1700000000, "ok") :
            name \in LongFileNameInputs, oc \in BOOLEAN}
    \cup UNION {
            {UploadRequest(TRUE, Some(name), TRUE, Body(n, PngBytes), oc, 1700000000,
                           "ok") :
                oc \in BOOLEAN,
                n \in DEFAULT_BODY_LIMIT - Framing(Some(name)) - MaxOver
                         .. DEFAULT_BODY_LIMIT - Framing(Some(name)) + MaxOver} :
            name \in {PhotoPng, <<"p", ".", "g", "i", "f">>}}
    \cup {UploadRequest(f, name, r, data, TRUE, 0, "ok") :
            f \in BOOLEAN, name \in {None, Some(PhotoPng)}, r \in BOOLEAN,
            data \in {Body(Len(PngBytes), PngBytes),
                      Body(MAX_FILE_SIZE + 1, PngBytes)}}

InitUpload ==
    /\ documents = {} /\ nodes = {} /\ content = {}
    /\ nextDocId = 1 /\ nextNodeId = 1 /\ nextContentId = 1
    /\ clock = 0
    /\ resp = NoResponse
    /\ inflight = [c \in Clients |-> Idle]
    /\ req \in UploadRequests
    /\ files = {}

NextUpload == upload_file

\* One upload request, drawn from UploadRequests, handled by upload_file.
SpecUpload == InitUpload /\ [][NextUpload]_vars

\* ------------------------------------------------------------------ claims

\* The node reached from node id by following parent_id upward k times (None
\* when the chain ends first).
RECURSIVE AncestorAt(_, _, _)
AncestorAt(ns, id, k) ==
    IF k = 0 THEN Some(id)
    ELSE LET rows == {n \in ns : n.id = id}
         IN  IF rows = {} THEN None
             ELSE LET p == (CHOOSE n \in rows : TRUE).parent_id
                  IN  IF IsSome(p) THEN AncestorAt(ns, Unwrap(p), k - 1) ELSE None

\* id is one of the nodes of roots or reaches one by parent_id links.
DescendsFrom(ns, id, roots) ==
    \E k \in 0 .. Cardinality(ns) :
        LET a == AncestorAt(ns, id, k) IN IsSome(a) /\ Unwrap(a) \in roots

NodeIdsOfDocument(id) == {n.id : n \in {m \in nodes : m.document_id = id}}

\* C1 as stated: after delete_document(D) no node of D and no content row of such a
\* node is left, and the nodes and content of every other document are unchanged.
C1_Original ==
    [][\A id \in DocIdInputs :
          delete_document(id) =>
             /\ \A n \in nodes' : n.document_id # id
             /\ \A c \in content' : c.node_id \notin NodeIdsOfDocument(id)
             /\ \A n \in nodes : n.document_id # id => n \in nodes'
             /\ \A c \in content :
                   c.node_id \notin NodeIdsOfDocument(id) => c \in content']_vars

\* C1 amended: after delete_document(D) the store holds exactly the nodes that are
\* neither nodes of D nor descendants (by parent_id links) of a node of D, and exactly
\* the content rows of the nodes it holds; only document D is removed.
C1_DeleteDocumentCascade ==
    [][\A id \in DocIdInputs :
          delete_document(id) =>
             /\ documents' = {d \in documents : d.id # id}
             /\ \A n \in nodes' : n.document_id # id
             /\ nodes' = {n \in nodes :
                            ~DescendsFrom(nodes, n.id, NodeIdsOfDocument(id))}
             /\ content' = {c \in content :
                              ~DescendsFrom(nodes, c.node_id, NodeIdsOfDocument(id))}
             /\ \A c \in content' : c.node_id \in {n.id : n \in nodes'}]_vars

\* A document whose one node had content was deleted; nothing of it is left.
C1_Witness ==
    /\ resp.op = "delete_document" /\ resp.id = 1
    /\ nextDocId = 3 /\ nextNodeId = 2 /\ nextContentId = 2
    /\ DocIds = {2} /\ nodes = {} /\ content = {}

\* C3: after delete_node(N) the store holds exactly the nodes that are neither N nor
\* reach N by parent_id links (through cycles and across documents too), and exactly
\* the content rows of those nodes; rows of the remaining nodes are unchanged.
C3_DeleteNodeCascade ==
    [][\A id \in NodeIdInputs :
          delete_node(id) =>
             /\ documents' = documents
             /\ nodes' = {n \in nodes : ~DescendsFrom(nodes, n.id, {id})}
             /\ content' = {c \in content : ~DescendsFrom(nodes, c.node_id, {id})}
             /\ id \notin {n.id : n \in nodes'}
             /\ \A c \in content' : c.node_id # id]_vars

\* Three nodes were created, node 2 survives the deletion of node 1 and the other
\* node went with it.
C3_Witness ==
    /\ resp.op = "delete_node" /\ resp.id = 1
    /\ nextNodeId = 4
    /\ NodeIds = {2}

\* C10: get_content(N) answers 404 exactly when the store holds no content row for
\* N, which is the case for every id that is not a node (never created, or deleted
\* with its content); otherwise it answers 200 with the single row of N; it changes
\* no row.
C10_GetContentNotFound ==
    [][\A id \in NodeIdInputs :
          get_content(id) =>
             /\ resp'.status \in {200, 404}
             /\ resp'.status = 404 <=> ContentRows(id) = {}
             /\ id \notin NodeIds => resp'.status = 404
             /\ resp'.status = 200 =>
                   /\ ContentRows(id) = {Unwrap(resp'.body)}
                   /\ Unwrap(resp'.body).node_id = id
             /\ UNCHANGED storeVars]_vars

\* Content was saved for node 1, the only node ever created; node 1 is gone and
\* get_content(1) answers 404.
C10_Witness ==
    /\ resp.op = "get_content" /\ resp.id = 1 /\ resp.status = 404
    /\ nextNodeId = 2 /\ nextContentId = 2
    /\ nodes = {}

\* Some save_content upsert is the step taken.
SomeUpsert ==
    \E c \in Clients, id \in NodeIdInputs, p \in Payloads :
        save_content_upsert(c, id, p)

\* C2: every upsert of save_content for an existing node N leaves exactly one content
\* row for N, holding that upsert's payload, and leaves the rows of other nodes as
\* they were; no other request writes content_json (a step that is not an upsert
\* only removes rows), so the row of N holds the payload of the upsert executed
\* last, however the saves interleave; no state has two rows for one node_id.
C2_OneRowLastWriterWins ==
    [][/\ \A c \in Clients, id \in NodeIdInputs, p \in Payloads :
             (save_content_upsert(c, id, p) /\ id \in NodeIds) =>
                /\ \E row \in content' :
                      /\ {r \in content' : r.node_id = id} = {row}
                      /\ row.content_json = p
                /\ {r \in content' : r.node_id # id} = {r \in content : r.node_id # id}
       /\ ~SomeUpsert => content' \subseteq content
       /\ \A id \in NodeIdInputs :
             Cardinality({r \in content' : r.node_id = id}) <= 1]_vars

\* Two clients have both executed their upsert for node 1, with different payloads,
\* and neither has read yet: one row, one of the two payloads.
C2_Witness ==
    /\ Running(1, "save_content") /\ inflight[1].id = 1 /\ inflight[1].content_json = "p"
    /\ Running(2, "save_content") /\ inflight[2].id = 1 /\ inflight[2].content_json = "q"
    /\ \E row \in content : content = {row} /\ row.node_id = 1 /\ row.content_json = "q"

\* Task c executes a statement of update_node, as the in-flight request rec: its
\* first statement (rec is then the request just received) or a later one.
UpdateNodeStep(c, rec) ==
    \/ /\ Free(c) /\ rec.op = "update_node" /\ ~rec.changed /\ rec.undisturbed
       /\ rec.pc = StmtFrom(rec.payload, 1)
       /\ update_node_begin(c, rec.id, rec.payload)
    \/ /\ Running(c, "update_node") /\ rec = inflight[c]
       /\ update_node_next(c)

\* The requests task c may have executed a statement of in this step: the one it
\* was handling, or one of inputs it has just received, which it is handling now
\* or answered with its first statement (the SELECT, or a rejected parent_id).
UpdateNodeRecs(c, inputs) ==
    IF ~Free(c) THEN {inflight[c]}
    ELSE IF inflight'[c].pending
    THEN {InFlight("update_node", StmtFrom(payload, 1), inflight'[c].id, "", "",
                   payload, FALSE) : payload \in {inflight'[c].payload} \cap inputs}
    ELSE {InFlight("update_node", StmtFrom(payload, 1), resp'.id, "", "",
                   payload, FALSE) :
             payload \in {q \in inputs : StmtFrom(q, 1) \in {"parent_id", "select"}}}

\* The value of field f that payload supplies, as it is stored.
SuppliedValue(payload, f) ==
    IF f = "parent_id" THEN payload.parent_id ELSE Unwrap(payload[f])

\* What every statement of update_node leaves alone: the other tables, the other
\* rows, and in row id every field but the one named by f (f = "select": every
\* field) and updated_at.
UpdateNodeFrame(id, f) ==
    /\ documents' = documents /\ content' = content
    /\ {n \in nodes' : n.id # id} = {n \in nodes : n.id # id}
    /\ id \notin NodeIds => nodes' = nodes
    /\ id \in NodeIds =>
          \E new \in nodes' :
             /\ {n \in nodes' : n.id = id} = {new}
             /\ \A g \in DOMAIN new :
                   g \notin {f, "updated_at"} => new[g] = NodeRow(id)[g]

\* The SELECT of update_node: no row changes; 404 when the row is missing, else
\* 200 with the row as it is now, which for a request that no other task's write
\* came between holds every supplied value.
UpdateNodeSelect(rec) ==
    /\ nodes' = nodes
    /\ IF rec.id \in NodeIds
       THEN /\ resp'.status = 200
            /\ resp'.body = Some(NodeJson(NodeRow(rec.id)))
            /\ rec.undisturbed =>
                  \A k \in 1 .. 4 :
                     IsSome(rec.payload[UpdateNodeStmts[k]]) =>
                        Unwrap(resp'.body)[UpdateNodeStmts[k]] =
                           SuppliedValue(rec.payload, UpdateNodeStmts[k])
       ELSE resp'.status = 404 /\ resp'.body = None

\* C8 as stated: update_node on an existing node sets every field the payload
\* supplies to the supplied value and leaves the other fields and rows unchanged;
\* with an empty payload it changes nothing and returns the current row.  Statement
\* by statement: each UPDATE it executes is for a supplied field and sets that field
\* of the row, and nothing else; the SELECT returns the row.
C8_Original ==
    [][\A c \in Clients : \A rec \in UpdateNodeRecs(c, UpdateNodeInputs \cup {Retitle}) :
          UpdateNodeStep(c, rec) =>
             /\ UpdateNodeFrame(rec.id, rec.pc)
             /\ rec.payload = NoPayload => rec.pc = "select"
             /\ IF rec.pc = "select"
                THEN UpdateNodeSelect(rec)
                ELSE /\ IsSome(rec.payload[rec.pc])
                     /\ resp' = resp
                     /\ rec.id \in NodeIds =>
                           \E new \in nodes' :
                              /\ new.id = rec.id
                              /\ new[rec.pc] = SuppliedValue(rec.payload, rec.pc)
                              /\ new.updated_at = clock]_vars

\* C8 amended: update_node on an existing node sets each of title, order_index and
\* indent_level that the payload supplies to the supplied value, and a supplied
\* parent_id when it is the id of an existing node; a supplied parent_id that is the
\* id of no node is not written and the request answers 500.  Every field the
\* payload does not supply (and document_id, node_type, image_url, created_at and
\* every other node row) is unchanged; with an empty payload it changes nothing and
\* returns the current row.  Statement by statement, as for C8 as stated.
C8_UpdateNodePartial ==
    [][\A c \in Clients : \A rec \in UpdateNodeRecs(c, UpdateNodeInputs \cup {Retitle}) :
          UpdateNodeStep(c, rec) =>
             /\ UpdateNodeFrame(rec.id, rec.pc)
             /\ rec.payload = NoPayload => rec.pc = "select"
             /\ IF rec.pc = "select"
                THEN UpdateNodeSelect(rec)
                ELSE /\ IsSome(rec.payload[rec.pc])
                     /\ IF rec.pc = "parent_id" /\ rec.id \in NodeIds
                           /\ Unwrap(rec.payload.parent_id) \notin NodeIds
                        THEN /\ nodes' = nodes
                             /\ resp'.status = 500 /\ resp'.op = "update_node"
                             /\ ~inflight'[c].pending
                        ELSE /\ resp' = resp
                             /\ rec.id \in NodeIds =>
                                   \E new \in nodes' :
                                      /\ new.id = rec.id
                                      /\ new[rec.pc] = SuppliedValue(rec.payload, rec.pc)
                                      /\ new.updated_at = clock]_vars

\* Node 1, created with an image, was given a new title and a parent (itself); its
\* order_index, indent_level and image_url are as created, and node 2 is as created.
C8_Witness ==
    /\ resp.op = "update_node" /\ resp.id = 1 /\ resp.status = 200
    /\ \A c \in Clients : ~inflight[c].pending
    /\ NodeIds = {1, 2}
    /\ NodeRow(1).title = "b" /\ NodeRow(1).parent_id = Some(1)
    /\ NodeRow(1).order_index = 0 /\ NodeRow(1).indent_level = 0
    /\ NodeRow(1).image_url = Some("u")
    /\ NodeRow(2).title = "a" /\ NodeRow(2).parent_id = None
    /\ resp.body = Some(NodeJson(NodeRow(1)))

\* C9: the UPDATE of update_document(id, title) creates no row, changes no node,
\* no content and no other document; for an id that matches no document it leaves
\* the store unchanged, for an existing id it sets the title and an updated_at not
\* earlier than the previous one.  The SELECT changes nothing and answers 404 when
\* no document has the id, else 200 with the row; when no other request wrote
\* between the two statements the answer is 404 exactly for an id that matched no
\* document, and the row returned has the new title.
C9_UpdateDocument ==
    [][\A c \in Clients :
          /\ \A id \in DocIdInputs, t \in Titles :
                update_document_update(c, id, t) =>
                   /\ nodes' = nodes /\ content' = content /\ resp' = resp
                   /\ {d.id : d \in documents'} = DocIds
                   /\ {d \in documents' : d.id # id} = {d \in documents : d.id # id}
                   /\ id \notin DocIds => documents' = documents
                   /\ id \in DocIds =>
                         /\ [DocumentRow(id) EXCEPT !.title = t, !.updated_at = clock]
                               \in documents'
                         /\ clock >= DocumentRow(id).updated_at
          /\ update_document_select(c) =>
                /\ UNCHANGED storeVars
                /\ IF inflight[c].id \in DocIds
                   THEN /\ resp'.status = 200
                        /\ resp'.body = Some(DocumentRow(inflight[c].id))
                        /\ inflight[c].undisturbed =>
                              /\ inflight[c].changed
                              /\ Unwrap(resp'.body).title = inflight[c].title
                   ELSE /\ resp'.status = 404 /\ resp'.body = None
                        /\ inflight[c].undisturbed => ~inflight[c].changed]_vars

\* Document 1 was retitled a second after it was created, next to document 2, which
\* is as created.
C9_Witness ==
    /\ resp.op = "update_document" /\ resp.id = 1 /\ resp.status = 200
    /\ DocIds = {1, 2}
    /\ DocumentRow(1).title = "b"
    /\ DocumentRow(1).updated_at > DocumentRow(1).created_at
    /\ DocumentRow(2).title = "a"
    /\ DocumentRow(2).updated_at = DocumentRow(2).created_at
    /\ resp.body = Some(DocumentRow(1))

\* data is at least as long as sig and starts with it.
BeginsWith(data, sig) ==
    /\ data.len >= Len(sig)
    /\ \A i \in 1 .. Len(sig) : data.head[i] = sig[i]

\* The signature table of the specification, by extension.
MatchesSignature(data, ext) ==
    CASE ext \in {<<".", "j", "p", "g">>, <<".", "j", "p", "e", "g">>} ->
            BeginsWith(data, <<255, 216, 255>>)
      [] ext = <<".", "p", "n", "g">> ->
            BeginsWith(data, <<137, 80, 78, 71, 13, 10, 26, 10>>)
      [] ext = <<".", "g", "i", "f">> -> BeginsWith(data, <<71, 73, 70, 56>>)
      [] ext = <<".", "w", "e", "b", "p">> ->
            /\ BeginsWith(data, <<82, 73, 70, 70>>)
            /\ data.len >= 12
            /\ \A i \in 1 .. 4 : data.head[8 + i] = <<87, 69, 66, 80>>[i]
      [] OTHER -> FALSE

ExtensionInputs ==
    ALLOWED_EXTENSIONS \cup {<<".", "e", "x", "e">>, <<".">>, <<".", "b", "m", "p">>}

\* The request reached the validation steps and the writes succeed.
PlainUpload ==
    /\ req.present /\ req.has_field /\ ReadOk(req) /\ IsSome(req.file_name)
    /\ req.fs = "ok" /\ ~TooLarge(req.data)

\* C4: verify_image_magic_number(data, ext) is true exactly when data begins with
\* the signature listed for ext, for every byte sequence (one exactly as long as the
\* signature included), and false for every other extension; JPEG bytes named
\* photo.jpg are accepted and the same bytes named photo.png are rejected with 400.
C4_Original ==
    req.present =>
        /\ \A ext \in ExtensionInputs :
              verify_image_magic_number(req.data, ext) = MatchesSignature(req.data, ext)
        /\ (resp.op = "upload_file" /\ PlainUpload
              /\ BeginsWith(req.data, <<255, 216, 255>>)) =>
              /\ req.file_name = Some(PhotoJpg) => resp.status = 200
              /\ req.file_name = Some(PhotoPng) => resp.status = 400

SafeChars == AlphanumericChars \cup {".", "-", "_"}

HasDotDot(f) == \E i \in 1 .. Len(f) - 1 : f[i] = "." /\ f[i + 1] = "."

PasswdStored == Decimal(req.timestamp) \o <<"_", "p", "a", "s", "s", "w", "d", ".", "p", "n", "g">>

\* C5 as stated: every stored file name contains no "/" and no ".." sequence and
\* consists only of alphanumerics, ".", "-" and "_"; ../../etc/passwd.png with PNG
\* bytes is accepted and stored as {timestamp}_passwd.png.
C5_Original ==
    /\ \A f \in files :
          /\ \A i \in 1 .. Len(f) : f[i] \in SafeChars /\ f[i] # "/"
          /\ ~HasDotDot(f)
    /\ (resp.op = "upload_file" /\ PlainUpload /\ req.file_name = Some(PasswdPng)
          /\ BeginsWith(req.data, <<137, 80, 78, 71, 13, 10, 26, 10>>)) =>
          /\ resp.status = 200
          /\ files = {PasswdStored}

\* C5 amended: every stored file name is {timestamp}_{sanitized name}, contains no
\* "/", is neither "." nor ".." and consists only of alphanumerics, ".", "-" and
\* "_" (a ".." may remain inside the name, as in a..png), so the written path is a
\* direct child of the upload directory; ../../etc/passwd.png with PNG bytes is
\* accepted and stored as {timestamp}_passwd.png.
C5_StoredNameSafe ==
    /\ \A f \in files :
          /\ \A i \in 1 .. Len(f) : f[i] \in SafeChars /\ f[i] # "/"
          /\ f # <<".">> /\ f # <<".", ".">>
          /\ f = StoredName(req.timestamp,
                            SubSeq(f, Len(Decimal(req.timestamp)) + 2, Len(f)))
    /\ resp.status = 200 =>
          /\ files = {Unwrap(resp.body).filename}
          /\ Unwrap(resp.body).url =
                <<"/", "u", "p", "l", "o", "a", "d", "s", "/">>
                   \o Unwrap(resp.body).filename
    /\ (resp.op = "upload_file" /\ PlainUpload /\ req.file_name = Some(PasswdPng)
          /\ BeginsWith(req.data, <<137, 80, 78, 71, 13, 10, 26, 10>>)) =>
          /\ resp.status = 200
          /\ files = {PasswdStored}

\* ../../etc/passwd.png with PNG bytes was uploaded and stored as
\* {timestamp}_passwd.png.
C5_Witness ==
    /\ resp.op = "upload_file" /\ resp.status = 200
    /\ req.file_name = Some(PasswdPng)
    /\ files = {PasswdStored}

\* C6: for every file name whose sanitized form is longer than 255 characters,
\* sanitize_filename returns a string of at most 255 characters that ends with the
\* sanitized form's extension (from its last "." on), or its first 255 characters
\* when it has no "."; and it returns a value for every input.
C6_Original ==
    (req.present /\ IsSome(req.file_name)) =>
        LET raw == Sanitized(Unwrap(req.file_name))
            out == sanitize_filename(Unwrap(req.file_name), req.overflow_checks)
            dot == LastIndexOf(raw, ".")
            ext == SubSeq(raw, dot, Len(raw))
        IN  /\ ~out.panic
            /\ Len(raw) > MAX_LENGTH =>
                  /\ Len(out.value) <= MAX_LENGTH
                  /\ IF dot > 0
                     THEN /\ Len(out.value) >= Len(ext)
                          /\ SubSeq(out.value, Len(out.value) - Len(ext) + 1,
                                    Len(out.value)) = ext
                     ELSE out.value = SubSeq(raw, 1, MAX_LENGTH)

\* C7 as stated: an upload whose first field has a file name and a body longer
\* than MAX_FILE_SIZE, sent whole, is answered 413 whatever its name and leading
\* bytes are, and no file is written; a body of exactly MAX_FILE_SIZE bytes, or a
\* shorter one, is not answered 413.
C7_Original ==
    (resp.op = "upload_file" /\ req.has_field /\ IsSome(req.file_name)
        /\ req.body_sent)
       => /\ DataLen(req.data) > MAX_FILE_SIZE => resp.status = 413 /\ files = {}
          /\ DataLen(req.data) <= MAX_FILE_SIZE => resp.status # 413

\* C11: a save_content(N, p) request that answers 200 returns a row with node_id = N
\* and content_json = p, whatever other save_content requests for N and whatever
\* delete_node(N) ran between its upsert and its read.
C11_Original ==
    [][\A c \in Clients :
          (save_content_read(c) /\ resp'.status = 200) =>
             /\ Unwrap(resp'.body).node_id = inflight[c].id
             /\ Unwrap(resp'.body).content_json = inflight[c].content_json]_vars

\* Every reference of the store, after the step, names an existing row.
ReferencesHold ==
    /\ \A n \in nodes' : n.document_id \in {d.id : d \in documents'}
    /\ \A n \in nodes' :
          IsSome(n.parent_id) => Unwrap(n.parent_id) \in {m.id : m \in nodes'}
    /\ \A c \in content' : c.node_id \in {m.id : m \in nodes'}

\* The request was answered 500 and no row was added or changed.
RejectedUnchanged ==
    /\ resp'.status = 500
    /\ documents' = documents /\ nodes' = nodes /\ content' = content

\* C12: after every create, update, save and delete every node's document_id names
\* an existing document, every parent_id that is set names an existing node and
\* every content row's node_id names an existing node; create_node with a
\* document_id or parent_id that matches no row, update_node setting the parent_id
\* of an existing node to a missing node, and save_content for a missing node answer
\* 500 and add or change no row (for update_node: neither the rejected statement nor
\* the statements the request executed before it changed a row).
C12_Original ==
    [][/\ ReferencesHold
       /\ \A c \in Clients, d \in DocIdInputs,
             p \in {None} \cup {Some(i) : i \in NodeIdInputs} :
             (create_node_insert(c, CreateNodeRequest(d, p, None))
                /\ (d \notin DocIds \/ (IsSome(p) /\ Unwrap(p) \notin NodeIds)))
                => RejectedUnchanged
       /\ \A c \in Clients : \A rec \in UpdateNodeRecs(c, RefUpdateInputs) :
             (UpdateNodeStep(c, rec) /\ rec.pc = "parent_id" /\ rec.id \in NodeIds
                /\ Unwrap(rec.payload.parent_id) \notin NodeIds)
                => RejectedUnchanged /\ ~rec.changed
       /\ \A c \in Clients, id \in NodeIdInputs :
             (save_content_upsert(c, id, "p") /\ id \notin NodeIds)
                => RejectedUnchanged]_vars

====
